---------------------------- MODULE Spec2Model ----------------------------
(***************************************************************************)
(* Meshing workflow: the pipeline controller (run.py), the case assembler  *)
(* (scripts/case_structure.py) and the block-mesh dictionary generator     *)
(* (scripts/generate_blockMeshDict.py).                                    *)
(*                                                                         *)
(* Lengths are fixed-point integers counted in ticks.  One tick is 1/100   *)
(* of the last decimal the dictionaries print (".6f"), so that formatting  *)
(* a length rounds it and reading it back does not return the same number. *)
(* Floating-point rounding of the arithmetic itself is not modelled.       *)
(***************************************************************************)
EXTENDS Integers, Sequences, FiniteSets, TLC

\* ------------------------------------------------------------------ bounds
MaxCoord == 5       \* how many of the coordinates of CoordSeq a surface may use
MaxFiles == 2       \* longest listing of the inputSTL folder
MaxWorkers == 2     \* largest core count typed at the prompt
MaxRuns == 2        \* how often the operator starts run.py

\* ------------------------------------------------------- numeric resolution
Precision == 6                       \* digits of the ":.6f" format
TicksPerMicro == 10 * 10             \* ticks in 10^-6 length units
Unit == TicksPerMicro * 10^Precision  \* ticks in one length unit

\* M2 = 2: the fixed margin of the refinement box, in length units
M2 == 2
\* nproc default typed as empty input: int(input(...).strip() or 4)
DefaultCores == 4
\* --subdomains default of case_structure.py
DefaultSubdomains == 4

Max2(a, b) == IF a >= b THEN a ELSE b
Max3(a, b, c) == Max2(a, Max2(b, c))

\* f"{v:.6f}": the text of a length, as its count of 10^-6 units, rounded to
\* nearest with ties to even.
Fmt6(v) ==
    LET q == v \div TicksPerMicro
        r == v % TicksPerMicro
        half == TicksPerMicro \div 2
    IN  IF r < half THEN q
        ELSE IF r > half THEN q + 1
        ELSE IF q % 2 = 0 THEN q ELSE q + 1

\* float(text): the length a printed number stands for.
ParseFloat(m) == m * TicksPerMicro

\* ---------------------------------------------------------------- geometry
Box(x0, x1, y0, y1, z0, z1) ==
    [xmin |-> x0, xmax |-> x1, ymin |-> y0, ymax |-> y1, zmin |-> z0, zmax |-> z1]

\* D = max(xmax - xmin, ymax - ymin, zmax - zmin)
CharLength(B) == Max3(B.xmax - B.xmin, B.ymax - B.ymin, B.zmax - B.zmin)

\* upstream (negative X) = 3 D, downstream = 15 D, Y/Z = +-3 D
DomainBoxSymmetric(B) ==
    LET D == CharLength(B)
    IN  Box(B.xmin - 3 * D, B.xmax + 3 * D,
            B.ymin - 3 * D, B.ymax + 3 * D,
            B.zmin - 3 * D, B.zmax + 3 * D)
DomainBox(B) ==
    LET D == CharLength(B)
    IN  Box(B.xmin - 3 * D, B.xmax + 15 * D,
            B.ymin - 3 * D, B.ymax + 3 * D,
            B.zmin - 3 * D, B.zmax + 3 * D)

\* --cells "0.35 0.35 1"
Cells == [dx |-> 35 * (Unit \div 100), dy |-> 35 * (Unit \div 100), dz |-> Unit]

BoundKeys == {"xmin", "xmax", "ymin", "ymax", "zmin", "zmax"}
CellKeys == {"dx", "dy", "dz"}
NumericKeys == BoundKeys \cup CellKeys

\* values = {"xmin": xmin, ..., "dx": dx, ...}
Values(B) ==
    LET dom == DomainBox(B)
    IN  [k \in NumericKeys |->
            CASE k = "xmin" -> dom.xmin [] k = "xmax" -> dom.xmax
              [] k = "ymin" -> dom.ymin [] k = "ymax" -> dom.ymax
              [] k = "zmin" -> dom.zmin [] k = "zmax" -> dom.zmax
              [] k = "dx" -> Cells.dx [] k = "dy" -> Cells.dy
              [] k = "dz" -> Cells.dz]

\* A dictionary line: "<indent><key> <val>;<tail>" when key is one of the
\* numeric keys at the start of the line, any other line otherwise
\* (key = "other").  tail is what follows the first semicolon, 0 for nothing.
Line(k, v) == [indent |-> 4, key |-> k, val |-> v, tail |-> 0]
TailedLine(n, k, v, t) == [indent |-> n, key |-> k, val |-> v, tail |-> t]

\* for key, pat in patterns.items(): if pat.match(line): line = pat.sub(...)
\* pat = ^(\s*<key>\s+).+?; and the replacement is group(1) + value + ";",
\* so the indent, the key and what follows the first semicolon stay
RewriteLineKeepsOld(line, vals) ==
    IF line.key \in NumericKeys
    THEN [line EXCEPT !.val = @ + Fmt6(vals[line.key])]
    ELSE line
RewriteLine(line, vals) ==
    IF line.key \in NumericKeys
    THEN [line EXCEPT !.val = Fmt6(vals[line.key])]
    ELSE line

\* the substitution loop over the template's lines
RewriteLines(lines, vals) ==
    [i \in 1..Len(lines) |-> RewriteLine(lines[i], vals)]

\* re.search(r"<kmin>\s+([\-\d\.]+);.*<kmax>\s+([\-\d\.]+);", data, re.S):
\* the first kmin entry that a kmax entry follows, and (.* is greedy) the
\* last kmax entry after it.  found = FALSE when the search returns None.
SearchPair(lines, kmin, kmax) ==
    LET starts == {i \in 1..Len(lines) :
                     /\ lines[i].key = kmin
                     /\ \E j \in (i + 1)..Len(lines) : lines[j].key = kmax}
    IN  IF starts = {} THEN [found |-> FALSE, lo |-> 0, hi |-> 0]
        ELSE LET i == CHOOSE a \in starts : \A b \in starts : a <= b
                 ends == {j \in (i + 1)..Len(lines) : lines[j].key = kmax}
                 j == CHOOSE a \in ends : \A b \in ends : a >= b
             IN  [found |-> TRUE,
                  lo |-> ParseFloat(lines[i].val),
                  hi |-> ParseFloat(lines[j].val)]

\* read_block_bounds(bmd_path); ok = FALSE when a group() of None raises
ReadBlockBounds(lines) ==
    LET xs == SearchPair(lines, "xmin", "xmax")
        ys == SearchPair(lines, "ymin", "ymax")
        zs == SearchPair(lines, "zmin", "zmax")
    IN  [ok |-> xs.found /\ ys.found /\ zs.found,
         box |-> Box(xs.lo, xs.hi, ys.lo, ys.hi, zs.lo, zs.hi)]

Point(x, y, z) == [x |-> x, y |-> y, z |-> z]

\* loc_str: locationInMesh (stl_max + (mesh_max - stl_max)/2) on each axis
LocInMeshAtFace(m, s) == Point(Fmt6(s.xmax), Fmt6(s.ymax), Fmt6(s.zmax))
LocInMesh(m, s) ==
    Point(Fmt6(s.xmax + (m.xmax - s.xmax) \div 2),
          Fmt6(s.ymax + (m.ymax - s.ymax) \div 2),
          Fmt6(s.zmax + (m.zmax - s.zmax) \div 2))

\* ref_min: min (stl_min - M2) on each axis
RefMin(s) ==
    Point(Fmt6(s.xmin - M2 * Unit), Fmt6(s.ymin - M2 * Unit), Fmt6(s.zmin - M2 * Unit))

\* ref_max: max (xmax_m  stl_ymax + M2  stl_zmax + M2)
RefMaxSurfaceX(m, s) ==
    Point(Fmt6(s.xmax + M2 * Unit), Fmt6(s.ymax + M2 * Unit), Fmt6(s.zmax + M2 * Unit))
RefMax(m, s) ==
    Point(Fmt6(m.xmax), Fmt6(s.ymax + M2 * Unit), Fmt6(s.zmax + M2 * Unit))

\* ------------------------------------------------------------- environment
\* A file of the inputSTL folder: its stem and its extension as spelled.
File(stem, ext) == [stem |-> stem, ext |-> ext]
Files == {File("a", "stl"), File("b", "STL"), File("notes", "txt")}

\* INPUT_DIR.glob('*.stl'): the pattern is matched as spelled
GlobStl(f) == f.ext = "stl"
\* f.lower().endswith('.stl')
LowerEndsWithStl(f) == f.ext \in {"stl", "STL"}

\* SelectSeq keeps the listing order of the folder
GlobFiles(listing) == SelectSeq(listing, GlobStl)
ListdirStlFiles(listing) == SelectSeq(listing, LowerEndsWithStl)

\* the listings of the folder: up to MaxFiles different files in any order
Listings ==
    {l \in UNION {[1..n -> Files] : n \in 0..MaxFiles} :
        \A i, j \in 1..Len(l) : i # j => l[i] # l[j]}

\* ------------------------------------------------------------ field files
\* A text is the sequence of its words, the maximal runs of [A-Za-z0-9_]
\* that \b delimits; a word is the sequence of its parts, so that
\* <<"cylinder", "Group">> is the word cylinderGroup.
Words(name) ==
    CASE name = "cylinder" -> << <<"cylinder">> >>
      [] name = "cylinderGroup" -> << <<"cylinder", "Group">> >>
      [] name = "my-cylinder" -> << <<"my">>, <<"cylinder">> >>
      [] OTHER -> << <<name>> >>

\* stl_name + "Group": the suffix joins the last word of the name
WithGroup(words) == [words EXCEPT ![Len(words)] = Append(@, "Group")]

\* re.sub(r"\b<word>\b", repl, text): every word equal to <word> becomes the
\* words of repl, left to right
RECURSIVE ReSubWord(_, _, _)
ReSubWord(text, word, repl) ==
    IF text = <<>> THEN <<>>
    ELSE (IF Head(text) = word THEN repl ELSE <<Head(text)>>)
            \o ReSubWord(Tail(text), word, repl)

\* the three re.sub calls on the text of one field file, in source order
RenameText(text, stl_name) ==
    LET t1 == ReSubWord(text, <<"placeholder">>, Words(stl_name))
        t2 == ReSubWord(t1, <<"cylinder", "Group">>, WithGroup(Words(stl_name)))
    IN  ReSubWord(t2, <<"cylinder">>, Words(stl_name))

\* a file of templateCase/0 and its text
FieldFile(name, text) == [name |-> name, text |-> text]
FieldNames == <<"U", "p", "nuTilda", "nut">>

\* the whole field file by file, in the order of the loop
RenameAll(files, stl_name) ==
    [i \in 1..Len(files) |->
        FieldFile(files[i].name, RenameText(files[i].text, stl_name))]

\* field texts: patch names to rename next to names that only contain them
WallText ==
    << <<"inlet">>, <<"placeholder">>, <<"cylinder", "Group">>, <<"outlet">> >>
MixedText ==
    << <<"cylinder">>, <<"cylinder", "Wall">>, <<"my", "placeholder">>,
       <<"placeholder">>, <<"cylinder", "Group">>, <<"cylinder">> >>
StdFields == <<FieldFile("U", WallText), FieldFile("p", WallText)>>
FieldTemplates ==
    {<<>>, StdFields,
     <<FieldFile("U", MixedText)>>,
     <<FieldFile("U", WallText), FieldFile("p", MixedText),
       FieldFile("nuTilda", WallText), FieldFile("nut", MixedText)>>}

\* -------------------------------------------------------- decomposeParDict
\* A line of system/decomposeParDict: its indent, the parts of the word its
\* stripped text starts with (<<"numberOfSubdomains", "PerNode">> is the word
\* numberOfSubdomainsPerNode) and the rest of the line as a number.
DictLine(n, head, v) == [indent |-> n, head |-> head, val |-> v]

\* L.strip().startswith("numberOfSubdomains")
StartsWithKey(L) == L.head # <<>> /\ L.head[1] = "numberOfSubdomains"

\* f.write(f"numberOfSubdomains {nSub};\n") or f.write(L + "\n")
PatchLine(L, n) ==
    IF StartsWithKey(L) THEN DictLine(0, <<"numberOfSubdomains">>, n) ELSE L

\* for L in lines: ...
PatchLines(lines, n) == [i \in 1..Len(lines) |-> PatchLine(lines[i], n)]

\* decomposition templates: the usual one, one without the key, one with the
\* key twice, one with a longer key that starts alike, one with an indented key
StdDecomp ==
    <<DictLine(0, <<"FoamFile">>, 1), DictLine(0, <<"numberOfSubdomains">>, 8),
      DictLine(0, <<"method">>, 2)>>
NoKeyDecomp == <<DictLine(0, <<"FoamFile">>, 1), DictLine(0, <<"method">>, 2)>>
TwoKeyDecomp ==
    <<DictLine(0, <<"numberOfSubdomains">>, 8), DictLine(0, <<"method">>, 2),
      DictLine(4, <<"numberOfSubdomains">>, 6)>>
LongKeyDecomp ==
    <<DictLine(0, <<"numberOfSubdomains">>, 8),
      DictLine(0, <<"numberOfSubdomains", "PerNode">>, 2),
      DictLine(0, <<"method">>, 2)>>
IndentedDecomp ==
    <<DictLine(0, <<"method">>, 2), DictLine(4, <<"numberOfSubdomains">>, 8)>>
DecompTemplates ==
    {StdDecomp, NoKeyDecomp, TwoKeyDecomp, LongKeyDecomp, IndentedDecomp}

\* ------------------------------------------------------- snappyHexMeshDict
\* A line of mesh/snappyHexMeshDict by what its stripped text s is:
\*   "castellatedMeshControls"  s == "castellatedMeshControls"
\*   "{"                        s == "{"
\*   "}"                        s == "}"
\*   "refinementBox"            s.startswith("refinementBox")
\*   "min", "max"               s.startswith("min ("), s.startswith("max (")
\*   "block"                    the header of any other block
\*   "entry"                    anything else
\* and a number that tells lines of the same kind apart (0 is kept for the
\* lines the script computes).
SLine(kind, id) == [kind |-> kind, id |-> id]

\* loc_str, ref_min, ref_max as lines of the output; their numbers are in
\* LocInMesh, RefMin and RefMax
LocLine == SLine("locationInMesh", 0)
RefMinLine == SLine("min", 0)
RefMaxLine == SLine("max", 0)

\* for L in sdict.splitlines(): ... out.append(...), with the flags inject
\* and in_ref carried from line to line
RECURSIVE SnappyRewrite(_, _, _)
SnappyRewrite(lines, inject, in_ref) ==
    IF lines = <<>> THEN <<>>
    ELSE LET L == Head(lines)
             rest == Tail(lines)
         IN  IF L.kind = "castellatedMeshControls"
             THEN <<L>> \o SnappyRewrite(rest, TRUE, in_ref)
             ELSE IF inject /\ L.kind = "{"
             THEN <<L, LocLine>> \o SnappyRewrite(rest, FALSE, in_ref)
             ELSE IF L.kind = "refinementBox"
             THEN <<L>> \o SnappyRewrite(rest, inject, TRUE)
             ELSE IF in_ref /\ L.kind = "min"
             THEN <<RefMinLine>> \o SnappyRewrite(rest, inject, in_ref)
             ELSE IF in_ref /\ L.kind = "max"
             THEN <<RefMaxLine>> \o SnappyRewrite(rest, inject, FALSE)
             ELSE <<L>> \o SnappyRewrite(rest, inject, in_ref)

\* out = []; inject = False; in_ref = False; the loop
SnappyOut(lines) == SnappyRewrite(lines, FALSE, FALSE)

\* a block: its header line, "{", its lines, "}"
BlockOf(header, body) == <<header, SLine("{", 0)>> \o body \o <<SLine("}", 0)>>
GeometryBox(id) ==
    BlockOf(SLine("refinementBox", id),
            <<SLine("entry", id), SLine("min", id), SLine("max", id)>>)
Castellated(id) ==
    BlockOf(SLine("castellatedMeshControls", id), <<SLine("entry", id)>>)

\* snappy templates: the usual layout (geometry with the refinementBox
\* sub-block, then castellatedMeshControls), one whose refinementRegions
\* name refinementBox again, and layouts that lack structural lines
StdSnappy ==
    <<SLine("block", 1), SLine("{", 0)>> \o GeometryBox(1) \o <<SLine("}", 0)>>
       \o Castellated(2)
RegionsSnappy ==
    GeometryBox(1)
       \o BlockOf(SLine("castellatedMeshControls", 2),
                  BlockOf(SLine("refinementBox", 3), <<SLine("entry", 3)>>))
       \o BlockOf(SLine("block", 4), <<SLine("min", 4), SLine("max", 4)>>)
NoHeaderSnappy == GeometryBox(1) \o BlockOf(SLine("block", 2), <<SLine("entry", 2)>>)
NoBraceSnappy ==
    <<SLine("castellatedMeshControls", 1), SLine("entry", 1)>>
       \o BlockOf(SLine("block", 2), <<SLine("entry", 2)>>) \o GeometryBox(3)
CommentedSnappy ==
    <<SLine("castellatedMeshControls", 1), SLine("entry", 1), SLine("{", 0),
      SLine("entry", 2), SLine("}", 0)>> \o GeometryBox(3)
NoBoxSnappy ==
    Castellated(1) \o BlockOf(SLine("block", 2), <<SLine("min", 2), SLine("max", 2)>>)
NoMaxSnappy ==
    BlockOf(SLine("refinementBox", 1), <<SLine("min", 1)>>)
       \o Castellated(2)
       \o BlockOf(SLine("block", 3), <<SLine("min", 3), SLine("max", 3)>>)
SnappyTemplates ==
    {StdSnappy, RegionsSnappy, NoHeaderSnappy, NoBraceSnappy, CommentedSnappy,
     NoBoxSnappy, NoMaxSnappy}

\* the coordinates surfaces are built from, in ticks (all even, so that
\* halving a difference is exact): 0, 1, 2 * 10^-8, 10^-6, 1/2, -1/4, 1/3 to
\* eight digits, 1.5 * 10^-6
CoordSeq ==
    <<0, Unit, 2, TicksPerMicro, Unit \div 2, -(Unit \div 4), 2 * (Unit \div 6),
      3 * (TicksPerMicro \div 2)>>
CoordVals == {CoordSeq[i] : i \in 1..MaxCoord}

\* BoundingBox invariant of compute_bounds: min <= max on each axis
Boxes ==
    {Box(x0, x1, y0, y1, z0, z1) :
        x0 \in CoordVals, x1 \in CoordVals, y0 \in CoordVals,
        y1 \in CoordVals, z0 \in CoordVals, z1 \in CoordVals}
SurfaceBoxes ==
    {B \in Boxes : B.xmin <= B.xmax /\ B.ymin <= B.ymax /\ B.zmin <= B.zmax}

UnitCube == Box(0, Unit, 0, Unit, 0, Unit)
PointBox == Box(0, 0, 0, 0, 0, 0)
\* the surfaces of the full pipeline runs
PipelineBoxes == {UnitCube, PointBox}

\* templateCase/system/blockMeshDict: its lines, by key
TemplateOf(keys) == [i \in 1..Len(keys) |-> Line(keys[i], i)]
StdTemplate ==
    TemplateOf(<<"other", "xmin", "xmax", "ymin", "ymax", "zmin", "zmax",
                 "dx", "dy", "dz", "other">>)
NoXmaxTemplate ==
    TemplateOf(<<"other", "xmin", "ymin", "ymax", "zmin", "zmax",
                 "dx", "dy", "dz", "other">>)
TwoXmaxTemplate ==
    TemplateOf(<<"xmin", "xmax", "ymin", "ymax", "zmin", "zmax",
                 "dx", "dy", "dz", "other", "xmax">>)
BlockTemplates == {StdTemplate, NoXmaxTemplate, TwoXmaxTemplate}

\* templates whose key lines differ in indent and carry text after the
\* semicolon, or that hold no numeric key at all
TailedTemplate ==
    <<TailedLine(0, "xmin", 1, 1), TailedLine(2, "xmax", 2, 0),
      TailedLine(8, "ymin", 3, 2), TailedLine(4, "other", 4, 3),
      TailedLine(0, "dx", 5, 0), TailedLine(1, "dz", 6, 4),
      TailedLine(3, "xmin", 7, 0)>>
PlainTemplate == TemplateOf(<<"other", "other">>)
GenTemplates == BlockTemplates \cup {TailedTemplate, PlainTemplate}

\* -------------------------------------------------------------------- state
VARIABLES
    stlListing,     \* inputSTL as the operating system lists it
    stlBox,         \* bounding box of the vertices of the surface file
    stlReadable,    \* whether mesh.Mesh.from_file reads the surface file
    blockTemplate,  \* lines of templateCase/system/blockMeshDict
    fieldFiles,     \* the files of templateCase/0 among U, p, nuTilda, nut
    decompTemplate, \* lines of templateCase/system/decomposeParDict
    snappyTemplate, \* lines of mesh/snappyHexMeshDict
    case,           \* the case directory
    pc,             \* run.py: where main() stands
    inputStl,       \* run.py: INPUT_STL, <<>> before it is set
    runParallel,    \* run.py: runParallel
    nproc,          \* run.py: nproc
    runSol,         \* run.py: runSol
    solver,         \* run.py: solver
    invoked,        \* run.py: the commands run_and_log ran in this run
    failure,        \* run.py: what ended the run early, "" if nothing
    runs,           \* how often run.py was started
    solverNps,      \* the -np values parallel solvers were given, all runs
    ppc,            \* case_structure.py: where the script stands
    nSub,           \* case_structure.py: nSub
    fname,          \* case_structure.py: fname, <<>> before it is set
    domain,         \* generate_blockMeshDict.py: the domain box, <<>> before
    picked          \* the surface files copied into the case, all runs

env == <<stlListing, stlBox, stlReadable, blockTemplate, fieldFiles,
         decompTemplate, snappyTemplate>>
ctl == <<pc, inputStl, runParallel, nproc, runSol, solver, invoked, failure,
         runs, solverNps>>
ctl_but_pc == <<inputStl, runParallel, nproc, runSol, solver, invoked, failure,
                runs, solverNps>>
prep == <<ppc, nSub, fname, domain, picked>>
vars == <<env, case, ctl, prep>>

AllSubst == {"fields", "decomp", "surface", "blockMesh", "snappy", "featureDict"}

\* no case directory
NoCase ==
    [exists |-> FALSE, subst |-> {}, nSub |-> 0, stl |-> <<>>, bmd |-> <<>>,
     geo |-> <<>>, procDirs |-> FALSE, foam |-> FALSE, logs |-> {},
     fields |-> <<>>, decomp |-> <<>>, snappy |-> <<>>]
\* CASE.mkdir(): an empty case directory
EmptyCase == [NoCase EXCEPT !.exists = TRUE]

\* ------------------------------------------------- scripts/case_structure.py
\* The script raises: the interpreter exits non-zero where it stands.
PrepFails == ppc' = "failed"

\* if os.path.isdir(case_dir): shutil.rmtree(case_dir)
\* shutil.copytree(template_case, case_dir)
\* templateOk: templateCase is there; hasFoam: it holds a case.foam file
CopyTemplate ==
    /\ ppc = "copytree"
    /\ \E templateOk \in BOOLEAN, hasFoam \in BOOLEAN :
          IF templateOk
          THEN /\ case' = [EmptyCase EXCEPT !.foam = hasFoam,
                                             !.fields = fieldFiles,
                                             !.decomp = decompTemplate]
               /\ ppc' = "load"
          ELSE /\ ~hasFoam
               /\ case' = NoCase
               /\ PrepFails
    /\ UNCHANGED <<env, ctl, nSub, fname, domain, picked>>

\* with open(snappy_tmpl) ...; with open(surface_tmpl) ...
LoadTemplates ==
    /\ ppc = "load"
    /\ \E meshOk \in BOOLEAN : IF meshOk THEN ppc' = "detect" ELSE PrepFails
    /\ UNCHANGED <<env, case, ctl, nSub, fname, domain, picked>>

\* stl_files = [f for f in os.listdir(stl_folder) if f.lower().endswith('.stl')]
\* if not stl_files: raise FileNotFoundError; fname = stl_files[0]
DetectStl ==
    /\ ppc = "detect"
    /\ LET stl_files == ListdirStlFiles(stlListing)
       IN  IF stl_files = <<>>
           THEN PrepFails /\ UNCHANGED fname
           ELSE ppc' = "fields" /\ fname' = <<stl_files[1]>>
    /\ UNCHANGED <<env, case, ctl, nSub, domain, picked>>

\* stl_name = os.path.splitext(fname)[0]
\* for field in [...]: if not os.path.isfile(f0): continue; re.sub ...; write
RenameFields ==
    /\ ppc = "fields"
    /\ case' = [case EXCEPT !.subst = @ \cup {"fields"},
                            !.fields = RenameAll(@, fname[1].stem)]
    /\ ppc' = "decomp"
    /\ UNCHANGED <<env, ctl, nSub, fname, domain, picked>>

\* with open(dp) as f: lines = f.read().splitlines(); every line is written
\* back, patched or as it was.  The count the case specifies afterwards is
\* nSub when a line was patched and none (0) when the file has no key line.
PatchDecomposePar ==
    /\ ppc = "decomp"
    /\ \E dictOk \in BOOLEAN :
          IF dictOk
          THEN /\ case' = [case EXCEPT
                             !.subst = @ \cup {"decomp"},
                             !.decomp = PatchLines(@, nSub),
                             !.nSub = IF \E i \in 1..Len(case.decomp) :
                                            StartsWithKey(case.decomp[i])
                                      THEN nSub ELSE 0]
               /\ ppc' = "copystl"
          ELSE PrepFails /\ UNCHANGED case
    /\ UNCHANGED <<env, ctl, nSub, fname, domain, picked>>

\* os.makedirs(tri_dir, exist_ok=True); shutil.copy(..., stl_dst)
CopyStl ==
    /\ ppc = "copystl"
    /\ case' = [case EXCEPT !.subst = @ \cup {"surface"}, !.stl = fname]
    /\ picked' = picked \cup {fname[1]}
    /\ ppc' = "blockmesh"
    /\ UNCHANGED <<env, ctl, nSub, fname, domain>>

\* subprocess.run(["python3", block_tmpl, ...], check=True): main() of
\* generate_blockMeshDict.py.  compute_bounds raises on a surface file that
\* cannot be read, and check=True raises in turn.
GenerateBlockMeshDict ==
    /\ ppc = "blockmesh"
    /\ IF stlReadable
       THEN /\ domain' = <<DomainBox(stlBox)>>
            /\ case' = [case EXCEPT
                          !.subst = @ \cup {"blockMesh"},
                          !.bmd = RewriteLines(blockTemplate, Values(stlBox))]
            /\ ppc' = "snappy"
       ELSE PrepFails /\ UNCHANGED <<case, domain>>
    /\ UNCHANGED <<env, ctl, nSub, fname, picked>>

\* read_block_bounds(bmd_out); compute_bounds(stl_dst); loc_str, ref_min,
\* ref_max; the rewritten snappyHexMeshDict is written
WriteSnappyDict ==
    /\ ppc = "snappy"
    /\ LET mesh == ReadBlockBounds(case.bmd)
       IN  IF mesh.ok
           THEN /\ case' = [case EXCEPT
                              !.subst = @ \cup {"snappy"},
                              !.snappy = SnappyOut(snappyTemplate),
                              !.geo = <<[loc |-> LocInMesh(mesh.box, stlBox),
                                         refMin |-> RefMin(stlBox),
                                         refMax |-> RefMax(mesh.box, stlBox)]>>]
                /\ ppc' = "feature"
           ELSE PrepFails /\ UNCHANGED case
    /\ UNCHANGED <<env, ctl, nSub, fname, domain, picked>>

\* surf = surface_template.replace("cylinder.stl", fname); write
WriteFeatureDict ==
    /\ ppc = "feature"
    /\ case' = [case EXCEPT !.subst = @ \cup {"featureDict"}]
    /\ ppc' = "ready"
    /\ UNCHANGED <<env, ctl, nSub, fname, domain, picked>>

PrepNext ==
    \/ CopyTemplate
    \/ LoadTemplates
    \/ DetectStl
    \/ RenameFields
    \/ PatchDecomposePar
    \/ CopyStl
    \/ GenerateBlockMeshDict
    \/ WriteSnappyDict
    \/ WriteFeatureDict

\* python3 scripts/case_structure.py --subdomains N, started by hand
InitEnv(boxes, listings, fields, decomps, snappies) ==
    /\ stlListing \in listings
    /\ snappyTemplate \in snappies
    /\ fieldFiles \in fields
    /\ decompTemplate \in decomps
    /\ blockTemplate \in BlockTemplates
    /\ \/ stlReadable = TRUE /\ stlBox \in boxes
       \/ stlReadable = FALSE /\ stlBox = PointBox

\* the controller's variables while run.py is not running
CtlIdle(at) ==
    /\ pc = at
    /\ inputStl = <<>>
    /\ runParallel = FALSE
    /\ nproc = 1
    /\ runSol = FALSE
    /\ solver = "simpleFoam"
    /\ invoked = <<>>
    /\ failure = ""
    /\ solverNps = {}

\* surface files whose names hold the words the field files are searched for
NamedListings ==
    {<<File("cylinder", "stl")>>, <<File("cylinderGroup", "stl")>>,
     <<File("my-cylinder", "stl")>>, <<File("wing", "stl")>>}

InitCase ==
    /\ \/ /\ InitEnv(SurfaceBoxes, {<<File("a", "stl")>>}, {StdFields}, {StdDecomp},
                     {StdSnappy})
          /\ case = NoCase
          /\ nSub = DefaultSubdomains
       \/ /\ InitEnv({UnitCube}, NamedListings, FieldTemplates, DecompTemplates,
                     SnappyTemplates)
          /\ case = NoCase
          /\ nSub \in {DefaultSubdomains} \cup (1..MaxWorkers)
       \/ /\ InitEnv(PipelineBoxes, {<<File("b", "STL")>>, <<File("notes", "txt")>>},
                     {StdFields}, {StdDecomp}, {StdSnappy})
          /\ case \in {NoCase, EmptyCase}
          /\ nSub \in {DefaultSubdomains} \cup (1..MaxWorkers)
    /\ CtlIdle("standalone")
    /\ runs = 0
    /\ ppc = "copytree"
    /\ fname = <<>>
    /\ domain = <<>>
    /\ picked = {}

SpecCase == InitCase /\ [][PrepNext]_vars

\* ------------------------------------------- scripts/generate_blockMeshDict.py
\* python3 scripts/generate_blockMeshDict.py --template T --stl S --output O
\* --cells "0.35 0.35 1", started by hand: main() reads the surface, rewrites
\* the lines of T and writes O (here the blockMeshDict of the case)
GenerateByHand ==
    /\ pc = "generate"
    /\ IF stlReadable
       THEN /\ domain' = <<DomainBox(stlBox)>>
            /\ case' = [case EXCEPT
                          !.subst = @ \cup {"blockMesh"},
                          !.bmd = RewriteLines(blockTemplate, Values(stlBox))]
            /\ pc' = "regenerate"
            /\ UNCHANGED failure
       ELSE /\ pc' = "aborted"
            /\ failure' = "generate_blockMeshDict"
            /\ UNCHANGED <<case, domain>>
    /\ UNCHANGED <<env, inputStl, runParallel, nproc, runSol, solver, invoked,
                   runs, solverNps, ppc, nSub, fname, picked>>

\* the script once more, with --template O: it rewrites its own output
RegenerateByHand ==
    /\ pc = "regenerate"
    /\ case' = [case EXCEPT !.bmd = RewriteLines(@, Values(stlBox))]
    /\ pc' = "generated"
    /\ UNCHANGED <<env, ctl_but_pc, prep>>

GenNext == GenerateByHand \/ RegenerateByHand

InitGen ==
    /\ stlListing = <<File("a", "stl")>>
    /\ fieldFiles = StdFields
    /\ decompTemplate = StdDecomp
    /\ snappyTemplate = StdSnappy
    /\ blockTemplate \in GenTemplates
    /\ \/ stlReadable = TRUE /\ stlBox \in SurfaceBoxes
       \/ stlReadable = FALSE /\ stlBox = PointBox
    /\ case = EmptyCase
    /\ CtlIdle("generate")
    /\ runs = 0
    /\ ppc = "idle"
    /\ nSub = DefaultSubdomains
    /\ fname = <<>>
    /\ domain = <<>>
    /\ picked = {}

SpecGen == InitGen /\ [][GenNext]_vars

\* --------------------------------------------------------------------- run.py
Solvers == {"simpleFoam", "pimpleFoam"}

Cmd(cmd, np, log, rc) == [cmd |-> cmd, np |-> np, log |-> log, rc |-> rc]

\* run_and_log(cmd, cwd, log_file): the log file is opened, the command runs
\* to its end, check_returncode() raises on a non-zero exit status
RunAndLogUnchecked(cmd, np, log, rc, next) ==
    /\ invoked' = Append(invoked, Cmd(cmd, np, log, rc))
    /\ pc' = next
    /\ UNCHANGED failure
RunAndLog(cmd, np, log, rc, next) ==
    /\ invoked' = Append(invoked, Cmd(cmd, np, log, rc))
    /\ IF rc = 0
       THEN pc' = next /\ UNCHANGED failure
       ELSE pc' = "aborted" /\ failure' = cmd

ExitCodes == {0, 1}

\* stl_files = list(INPUT_DIR.glob('*.stl')); if not stl_files: return
DetectInput ==
    /\ pc = "start"
    /\ LET stl_files == GlobFiles(stlListing)
       IN  IF stl_files = <<>>
           THEN pc' = "done" /\ failure' = "no_stl" /\ UNCHANGED inputStl
           ELSE pc' = "clean" /\ inputStl' = <<stl_files[1]>> /\ UNCHANGED failure
    /\ UNCHANGED <<env, case, prep, runParallel, nproc, runSol, solver,
                   invoked, runs, solverNps>>

\* if CASE.exists(): shutil.rmtree(CASE); CASE.mkdir()
CleanCase ==
    /\ pc = "clean"
    /\ case' = EmptyCase
    /\ pc' = "prep"
    /\ UNCHANGED <<env, prep, inputStl, runParallel, nproc, runSol, solver,
                   invoked, failure, runs, solverNps>>

\* subprocess.run(['python3', str(CASE_SCRIPT)], check=True): the script
\* starts, without --subdomains
StartPrep ==
    /\ pc = "prep"
    /\ pc' = "prepwait"
    /\ ppc' = "copytree"
    /\ nSub' = DefaultSubdomains
    /\ fname' = <<>>
    /\ domain' = <<>>
    /\ UNCHANGED picked
    /\ UNCHANGED <<env, case, inputStl, runParallel, nproc, runSol, solver,
                   invoked, failure, runs, solverNps>>

\* check=True: a non-zero exit of the script raises CalledProcessError
PrepOutcomeIgnored(state) == "blockMesh"
PrepOutcome(state) == IF state = "ready" THEN "blockMesh" ELSE "aborted"

PrepReturn ==
    /\ pc = "prepwait"
    /\ ppc \in {"ready", "failed"}
    /\ pc' = PrepOutcome(ppc)
    /\ failure' = IF pc' = "aborted" THEN "case_structure" ELSE failure
    /\ UNCHANGED <<env, case, prep, inputStl, runParallel, nproc, runSol,
                   solver, invoked, runs, solverNps>>

Logged(log) == case' = [case EXCEPT !.logs = @ \cup {log}]

\* run_and_log('blockMesh', CASE, 'log_blockMesh.txt')
BlockMesh ==
    /\ pc = "blockMesh"
    /\ \E rc \in ExitCodes :
          RunAndLog("blockMesh", 0, "log_blockMesh.txt", rc, "surfaceFeatureExtract")
    /\ Logged("log_blockMesh.txt")
    /\ UNCHANGED <<env, prep, inputStl, runParallel, nproc, runSol, solver,
                   runs, solverNps>>

\* run_and_log('surfaceFeatureExtract', CASE, 'log_surfaceFeatureExtract.txt')
SurfaceFeatureExtract ==
    /\ pc = "surfaceFeatureExtract"
    /\ \E rc \in ExitCodes :
          RunAndLog("surfaceFeatureExtract", 0, "log_surfaceFeatureExtract.txt",
                    rc, "askRefine")
    /\ Logged("log_surfaceFeatureExtract.txt")
    /\ UNCHANGED <<env, prep, inputStl, runParallel, nproc, runSol, solver,
                   runs, solverNps>>

\* what may be typed at "Number of cores [default 4]: ": nothing, a number,
\* or text int() rejects
Typed(kind, n) == [kind |-> kind, n |-> n]
CoreInputs ==
    {Typed("empty", 0), Typed("text", 0)} \cup {Typed("int", n) : n \in 1..MaxWorkers}

\* int(input(...).strip() or 4)
ParseCores(typed) == IF typed.kind = "empty" THEN DefaultCores ELSE typed.n

\* if runParallel: decomposePar, mpirun ..., reconstructParMesh; else: the
\* serial command
RefinePathNoDecompose(yes) == IF yes THEN "snappyParallel" ELSE "snappySerial"
RefinePath(yes) == IF yes THEN "decomposeMesh" ELSE "snappySerial"

\* if runSol: decomposePar, mpirun ..., reconstructPar; else: the solver
SolvePath(yes) == IF yes THEN "decomposeSim" ELSE "solveSerial"

\* runParallel = input(...).strip().lower() == 'y'
\* nproc = int(input(...).strip() or 4) if runParallel else 1
AskRefine ==
    /\ pc = "askRefine"
    /\ \E yes \in BOOLEAN, typed \in CoreInputs :
          /\ runParallel' = yes
          /\ IF ~yes
             THEN /\ typed.kind = "empty"
                  /\ nproc' = 1
                  /\ pc' = RefinePath(yes)
                  /\ UNCHANGED failure
             ELSE IF typed.kind = "text"
             THEN /\ pc' = "aborted"
                  /\ failure' = "ValueError"
                  /\ UNCHANGED nproc
             ELSE /\ nproc' = ParseCores(typed)
                  /\ pc' = RefinePath(yes)
                  /\ UNCHANGED failure
    /\ UNCHANGED <<env, case, prep, inputStl, runSol, solver, invoked, runs,
                   solverNps>>

\* decomposePar writes the processor* directories
Decomposed(log, rc) ==
    case' = [case EXCEPT !.logs = @ \cup {log},
                         !.procDirs = IF rc = 0 THEN TRUE ELSE @]

\* run_and_log('decomposePar', CASE, 'log_decomposePar.txt')
DecomposeMesh ==
    /\ pc = "decomposeMesh"
    /\ \E rc \in ExitCodes :
          /\ RunAndLog("decomposePar", 0, "log_decomposePar.txt", rc, "snappyParallel")
          /\ Decomposed("log_decomposePar.txt", rc)
    /\ UNCHANGED <<env, prep, inputStl, runParallel, nproc, runSol, solver,
                   runs, solverNps>>

\* run_and_log(f"mpirun -np {nproc} snappyHexMesh ... -parallel -overwrite", ...)
SnappyParallel ==
    /\ pc = "snappyParallel"
    /\ \E rc \in ExitCodes :
          RunAndLog("snappyHexMesh", nproc, "log_snappyHexMesh.txt", rc,
                    "reconstructMesh")
    /\ Logged("log_snappyHexMesh.txt")
    /\ UNCHANGED <<env, prep, inputStl, runParallel, nproc, runSol, solver,
                   runs, solverNps>>

\* run_and_log('reconstructParMesh -constant', ...)
\* for procdir in CASE.glob('processor*'): shutil.rmtree(procdir, ...)
ReconstructMesh ==
    /\ pc = "reconstructMesh"
    /\ \E rc \in ExitCodes :
          /\ RunAndLog("reconstructParMesh", 0, "log_reconstructParMesh.txt", rc,
                       "foam")
          /\ case' = [case EXCEPT !.logs = @ \cup {"log_reconstructParMesh.txt"},
                                  !.procDirs = IF rc = 0 THEN FALSE ELSE @]
    /\ UNCHANGED <<env, prep, inputStl, runParallel, nproc, runSol, solver,
                   runs, solverNps>>

\* run_and_log('snappyHexMesh -dict system/snappyHexMeshDict -overwrite', ...)
SnappySerial ==
    /\ pc = "snappySerial"
    /\ \E rc \in ExitCodes :
          RunAndLog("snappyHexMesh", 0, "log_snappyHexMesh.txt", rc, "foam")
    /\ Logged("log_snappyHexMesh.txt")
    /\ UNCHANGED <<env, prep, inputStl, runParallel, nproc, runSol, solver,
                   runs, solverNps>>

\* if not foamfile.exists(): foamfile.touch()
FinalizeMeshToggled ==
    /\ pc = "foam"
    /\ case' = [case EXCEPT !.foam = ~@]
    /\ pc' = "askSolve"
    /\ UNCHANGED <<env, prep, inputStl, runParallel, nproc, runSol, solver,
                   invoked, failure, runs, solverNps>>
FinalizeMesh ==
    /\ pc = "foam"
    /\ case' = [case EXCEPT !.foam = TRUE]
    /\ pc' = "askSolve"
    /\ UNCHANGED <<env, prep, inputStl, runParallel, nproc, runSol, solver,
                   invoked, failure, runs, solverNps>>

\* solver = 'simpleFoam' unless controlDict names an application
\* runSol = input("Run solver in multi-cores? [y/N]: ").strip().lower() == 'y'
AskSolve ==
    /\ pc = "askSolve"
    /\ \E app \in Solvers, yes \in BOOLEAN :
          /\ solver' = app
          /\ runSol' = yes
          /\ pc' = SolvePath(yes)
    /\ UNCHANGED <<env, case, prep, inputStl, runParallel, nproc, invoked,
                   failure, runs, solverNps>>

\* run_and_log('decomposePar', CASE, 'log_decomposePar_sim.txt')
DecomposeSim ==
    /\ pc = "decomposeSim"
    /\ \E rc \in ExitCodes :
          /\ RunAndLog("decomposePar", 0, "log_decomposePar_sim.txt", rc,
                       "solveParallel")
          /\ Decomposed("log_decomposePar_sim.txt", rc)
    /\ UNCHANGED <<env, prep, inputStl, runParallel, nproc, runSol, solver,
                   runs, solverNps>>

\* run_and_log(f"mpirun -np {nproc} {solver} -parallel", CASE, 'log_solver.txt')
SolveParallel ==
    /\ pc = "solveParallel"
    /\ \E rc \in ExitCodes :
          RunAndLog(solver, nproc, "log_solver.txt", rc, "reconstructSim")
    /\ Logged("log_solver.txt")
    /\ solverNps' = solverNps \cup {nproc}
    /\ UNCHANGED <<env, prep, inputStl, runParallel, nproc, runSol, solver, runs>>

\* run_and_log('reconstructPar', CASE, 'log_reconstructSim.txt')
ReconstructSim ==
    /\ pc = "reconstructSim"
    /\ \E rc \in ExitCodes :
          RunAndLog("reconstructPar", 0, "log_reconstructSim.txt", rc, "done")
    /\ Logged("log_reconstructSim.txt")
    /\ UNCHANGED <<env, prep, inputStl, runParallel, nproc, runSol, solver,
                   runs, solverNps>>

\* run_and_log(solver, CASE, 'log_solver.txt')
SolveSerial ==
    /\ pc = "solveSerial"
    /\ \E rc \in ExitCodes :
          RunAndLog(solver, 0, "log_solver.txt", rc, "done")
    /\ Logged("log_solver.txt")
    /\ UNCHANGED <<env, prep, inputStl, runParallel, nproc, runSol, solver,
                   runs, solverNps>>

\* the listings of the same files, in any order
SameFiles(listing) ==
    {l \in Listings : {l[i] : i \in 1..Len(l)} = {listing[i] : i \in 1..Len(listing)}}

\* the operator starts run.py again: main() begins with fresh locals, the
\* folders hold what the last run left, and the operating system lists the
\* input folder in an order of its own (os.listdir: "in arbitrary order")
Restart ==
    /\ pc \in {"done", "aborted"}
    /\ runs < MaxRuns
    /\ runs' = runs + 1
    /\ pc' = "start"
    /\ inputStl' = <<>>
    /\ runParallel' = FALSE
    /\ nproc' = 1
    /\ runSol' = FALSE
    /\ solver' = "simpleFoam"
    /\ invoked' = <<>>
    /\ failure' = ""
    /\ ppc' = "idle"
    /\ stlListing' \in SameFiles(stlListing)
    /\ UNCHANGED <<stlBox, stlReadable, blockTemplate, fieldFiles, decompTemplate,
                   snappyTemplate, case, nSub, fname, domain, picked, solverNps>>

Init ==
    /\ InitEnv(PipelineBoxes, Listings, {StdFields}, {StdDecomp}, {StdSnappy})
    /\ case = NoCase
    /\ CtlIdle("start")
    /\ runs = 1
    /\ ppc = "idle"
    /\ nSub = DefaultSubdomains
    /\ fname = <<>>
    /\ domain = <<>>
    /\ picked = {}

Next ==
    \/ DetectInput
    \/ CleanCase
    \/ StartPrep
    \/ PrepNext
    \/ PrepReturn
    \/ BlockMesh
    \/ SurfaceFeatureExtract
    \/ AskRefine
    \/ DecomposeMesh
    \/ SnappyParallel
    \/ ReconstructMesh
    \/ SnappySerial
    \/ FinalizeMesh
    \/ AskSolve
    \/ DecomposeSim
    \/ SolveParallel
    \/ ReconstructSim
    \/ SolveSerial
    \/ Restart

Spec == Init /\ [][Next]_vars

\* ===================================================================== claims
MeshLogs == {"log_decomposePar.txt", "log_snappyHexMesh.txt",
             "log_reconstructParMesh.txt"}
SolveLogs == {"log_decomposePar_sim.txt", "log_solver.txt", "log_reconstructSim.txt"}

\* the stage a command of the run belongs to: 1 blockMesh, 2
\* surfaceFeatureExtract, 3 refinement, 4 solver
StageOfCmd(c) ==
    CASE c.log = "log_blockMesh.txt" -> 1
      [] c.log = "log_surfaceFeatureExtract.txt" -> 2
      [] c.log \in MeshLogs -> 3
      [] c.log \in SolveLogs -> 4

\* the commands that are a stage's own tool, not its decomposition or
\* reconstruction
IsMainCmd(c) ==
    c.log \in {"log_blockMesh.txt", "log_surfaceFeatureExtract.txt",
               "log_snappyHexMesh.txt", "log_solver.txt"}

Ran(log) == \E i \in 1..Len(invoked) : invoked[i].log = log
RanOk(log) == \E i \in 1..Len(invoked) : invoked[i].log = log /\ invoked[i].rc = 0
RanFailed(log) == \E i \in 1..Len(invoked) : invoked[i].log = log /\ invoked[i].rc # 0

\* C1: in every run the stages are invoked in the order blockMesh,
\* surfaceFeatureExtract, snappyHexMesh, solver, none twice; a command is
\* invoked only after every earlier command of the run exited with status
\* zero; and once surfaceFeatureExtract has exited non-zero, no refinement
\* command has been invoked, the run has ended and its failure names
\* surfaceFeatureExtract.
C1_StrictStageOrder ==
    /\ \A i, j \in 1..Len(invoked) :
          i < j => /\ invoked[i].rc = 0
                   /\ StageOfCmd(invoked[i]) <= StageOfCmd(invoked[j])
                   /\ IsMainCmd(invoked[i]) /\ IsMainCmd(invoked[j])
                        => StageOfCmd(invoked[i]) < StageOfCmd(invoked[j])
    /\ \A i \in 1..Len(invoked) :
          \A k \in 1..(StageOfCmd(invoked[i]) - 1) :
             \E j \in 1..(i - 1) :
                IsMainCmd(invoked[j]) /\ StageOfCmd(invoked[j]) = k
    /\ RanFailed("log_surfaceFeatureExtract.txt")
          => /\ \A i \in 1..Len(invoked) : StageOfCmd(invoked[i]) < 3
             /\ pc = "aborted"
             /\ failure = "surfaceFeatureExtract"

C1_Witness ==
    /\ RanOk("log_blockMesh.txt")
    /\ RanFailed("log_surfaceFeatureExtract.txt")
    /\ pc = "aborted"

\* C2: a command run under mpirun comes directly after a decomposePar of its
\* own stage that exited zero; a reconstruction comes directly after the
\* parallel command of its own stage, which exited zero; a stage whose tool
\* ran without mpirun has neither a decomposition nor a reconstruction; and
\* the tool runs under mpirun exactly when its stage was answered 'y'.
IsDecompose(c) == c.log \in {"log_decomposePar.txt", "log_decomposePar_sim.txt"}
IsReconstruct(c) == c.log \in {"log_reconstructParMesh.txt", "log_reconstructSim.txt"}
IsStageTool(c) == c.log \in {"log_snappyHexMesh.txt", "log_solver.txt"}

C2_ParallelBracket ==
    /\ \A i \in 1..Len(invoked) :
          LET c == invoked[i]
          IN  /\ c.np # 0 =>
                   /\ IsStageTool(c)
                   /\ i > 1
                   /\ IsDecompose(invoked[i - 1])
                   /\ invoked[i - 1].cmd = "decomposePar"
                   /\ invoked[i - 1].rc = 0
                   /\ StageOfCmd(invoked[i - 1]) = StageOfCmd(c)
              /\ IsReconstruct(c) =>
                   /\ i > 1
                   /\ IsStageTool(invoked[i - 1])
                   /\ invoked[i - 1].np # 0
                   /\ invoked[i - 1].rc = 0
                   /\ StageOfCmd(invoked[i - 1]) = StageOfCmd(c)
              /\ IsStageTool(c) /\ c.np = 0 =>
                   \A j \in 1..Len(invoked) :
                      StageOfCmd(invoked[j]) = StageOfCmd(c) => j = i
              /\ c.log = "log_snappyHexMesh.txt" => (c.np # 0 <=> runParallel)
              /\ c.log = "log_solver.txt" => (c.np # 0 <=> runSol)

C2_Witness ==
    /\ pc = "done"
    /\ ~runParallel
    /\ runSol
    /\ RanOk("log_reconstructSim.txt")
    /\ ~Ran("log_decomposePar.txt")

\* C3: after a branch's reconstruction has exited zero the processor*
\* directories are gone, and while a branch has been decomposed and its
\* reconstruction has not exited zero they are still there.
C3_ProcessorDirsRemoved ==
    Len(invoked) > 0 =>
       LET last == invoked[Len(invoked)]
       IN  /\ IsReconstruct(last) /\ last.rc = 0 => ~case.procDirs
           /\ IsDecompose(last) /\ last.rc = 0 => case.procDirs
           /\ IsStageTool(last) /\ last.np # 0 => case.procDirs
           /\ IsReconstruct(last) /\ last.rc # 0 => case.procDirs

\* C4: the -np value given to the parallel solver is the solve stage's own.
\* The solve stage is asked one question, y or N, so two parallel solver
\* commands were given the same choices of their own: whatever was chosen for
\* the refinement, all runs pass the solver the same -np value.
C4_SolverWorkersOwn == Cardinality(solverNps) <= 1

\* C5: when case preparation has stopped, a case directory exists only if
\* every assembly step was carried out.
C5_AllOrNothing ==
    ppc \in {"ready", "failed"} /\ case.exists
       => ppc = "ready" /\ case.subst = AllSubst

\* C6: a command of the toolchain has been invoked only in a run whose case
\* preparation ended without error and left the case fully assembled; a run
\* whose preparation failed, or that found no surface, invokes none and ends.
C6_NoToolBeforePrepared ==
    /\ invoked # <<>> =>
          /\ ppc = "ready"
          /\ case.exists
          /\ case.subst = AllSubst
          /\ Len(case.bmd) > 0
          /\ Len(case.geo) = 1
    /\ ppc = "failed" => invoked = <<>> /\ pc \in {"prepwait", "aborted"}
    /\ failure \in {"case_structure", "no_stl"} =>
          invoked = <<>> /\ pc \in {"aborted", "done"}
    /\ pc = "start" /\ GlobFiles(stlListing) = <<>> => invoked = <<>>

C6_Witness ==
    /\ pc = "aborted"
    /\ failure = "case_structure"
    /\ ppc = "failed"
    /\ "surface" \in case.subst

\* ---------------------------------------------------------- geometry claims
Extents(B) == {B.xmax - B.xmin, B.ymax - B.ymin, B.zmax - B.zmin}
\* the largest of the three extents
LargestExtent(B) == CHOOSE d \in Extents(B) : \A e \in Extents(B) : d >= e

\* the box a printed min/max pair of points stands for
BoxOfPoints(lo, hi) ==
    Box(ParseFloat(lo.x), ParseFloat(hi.x), ParseFloat(lo.y), ParseFloat(hi.y),
        ParseFloat(lo.z), ParseFloat(hi.z))

StrictlyContains(outer, inner) ==
    /\ outer.xmin < inner.xmin /\ inner.xmax < outer.xmax
    /\ outer.ymin < inner.ymin /\ inner.ymax < outer.ymax
    /\ outer.zmin < inner.zmin /\ inner.zmax < outer.zmax

Contains(outer, inner) ==
    /\ outer.xmin <= inner.xmin /\ inner.xmax <= outer.xmax
    /\ outer.ymin <= inner.ymin /\ inner.ymax <= outer.ymax
    /\ outer.zmin <= inner.zmin /\ inner.zmax <= outer.zmax

\* C7: once the dictionaries are written, the domain box strictly contains
\* the surface box on every axis and the refinement box written to
\* snappyHexMeshDict lies within the domain box on every axis.
C7_DomainContainsRefinement ==
    Len(domain) = 1 /\ Len(case.geo) = 1 =>
       /\ StrictlyContains(domain[1], stlBox)
       /\ Contains(domain[1], BoxOfPoints(case.geo[1].refMin, case.geo[1].refMax))

\* the printed value of the last line of the generated dictionary with key k
LastPrinted(lines, k) ==
    LET at == {i \in 1..Len(lines) : lines[i].key = k}
    IN  lines[CHOOSE i \in at : \A j \in at : i >= j].val

\* C8: the domain box computed from a surface box is (xmin - 3D, xmax + 15D,
\* ymin - 3D, ymax + 3D, zmin - 3D, zmax + 3D) with D the largest extent, and
\* these are the numbers printed into the block-mesh dictionary; the unit
\* cube gives (-3, 16, -3, 4, -3, 4); a surface of extent zero gives its own
\* extents; and the generation fails for no surface that can be read.
C8_DomainBoxFormula ==
    /\ Len(domain) = 1 =>
          LET B == stlBox
              D == LargestExtent(B)
              dom == domain[1]
          IN  /\ dom.xmin = B.xmin - 3 * D /\ dom.xmax = B.xmax + 15 * D
              /\ dom.ymin = B.ymin - 3 * D /\ dom.ymax = B.ymax + 3 * D
              /\ dom.zmin = B.zmin - 3 * D /\ dom.zmax = B.zmax + 3 * D
              /\ \A i \in 1..Len(case.bmd) :
                    /\ case.bmd[i].key = "xmin" => case.bmd[i].val = Fmt6(B.xmin - 3 * D)
                    /\ case.bmd[i].key = "xmax" => case.bmd[i].val = Fmt6(B.xmax + 15 * D)
                    /\ case.bmd[i].key = "ymin" => case.bmd[i].val = Fmt6(B.ymin - 3 * D)
                    /\ case.bmd[i].key = "ymax" => case.bmd[i].val = Fmt6(B.ymax + 3 * D)
                    /\ case.bmd[i].key = "zmin" => case.bmd[i].val = Fmt6(B.zmin - 3 * D)
                    /\ case.bmd[i].key = "zmax" => case.bmd[i].val = Fmt6(B.zmax + 3 * D)
              /\ B = UnitCube =>
                    dom = Box(-3 * Unit, 16 * Unit, -3 * Unit, 4 * Unit,
                              -3 * Unit, 4 * Unit)
              /\ D = 0 => dom = B
    /\ stlReadable /\ ppc = "failed" /\ "surface" \in case.subst
          => "blockMesh" \in case.subst

C8_Witness ==
    /\ Len(domain) = 1
    /\ LargestExtent(stlBox) = 0
    /\ stlBox.xmin # 0
    /\ "blockMesh" \in case.subst
    /\ ppc = "ready"

\* C9: the refinement box written to snappyHexMeshDict has the lower corner
\* (surface min - 2) on all three axes and the upper corner (xmax as it
\* stands in the generated block-mesh dictionary, which is the printed
\* downstream bound of the domain box; surface ymax + 2; surface zmax + 2).
C9_RefinementRegion ==
    Len(case.geo) = 1 =>
       LET B == stlBox
           margin == 2 * Unit
           g == case.geo[1]
       IN  /\ g.refMin = Point(Fmt6(B.xmin - margin), Fmt6(B.ymin - margin),
                               Fmt6(B.zmin - margin))
           /\ g.refMax.y = Fmt6(B.ymax + margin)
           /\ g.refMax.z = Fmt6(B.zmax + margin)
           /\ g.refMax.x = LastPrinted(case.bmd, "xmax")
           /\ g.refMax.x = Fmt6(domain[1].xmax)

C9_Witness ==
    /\ Len(case.geo) = 1
    /\ blockTemplate = TwoXmaxTemplate
    /\ LargestExtent(stlBox) = TicksPerMicro - 2
    /\ case.geo[1].refMax.x # Fmt6(stlBox.xmax + 2 * Unit)
    /\ ParseFloat(case.geo[1].refMax.x) # domain[1].xmax

InsideBox(p, B) ==
    /\ B.xmin <= ParseFloat(p.x) /\ ParseFloat(p.x) <= B.xmax
    /\ B.ymin <= ParseFloat(p.y) /\ ParseFloat(p.y) <= B.ymax
    /\ B.zmin <= ParseFloat(p.z) /\ ParseFloat(p.z) <= B.zmax

Abs(a) == IF a >= 0 THEN a ELSE -a

\* the downstream face of the surface plus half the gap to the downstream
\* boundary of the domain box
HalfGapX(B, dom) == B.xmax + (dom.xmax - B.xmax) \div 2

\* C10 as stated: for every surface box the locationInMesh point lies inside
\* the domain box and outside the surface box, and its x coordinate is (to the
\* printed precision) the downstream face plus half the gap.
C10_LocationAnySurface ==
    Len(case.geo) = 1 =>
       LET p == case.geo[1].loc
       IN  /\ InsideBox(p, domain[1])
           /\ ~InsideBox(p, stlBox)
           /\ Abs(ParseFloat(p.x) - HalfGapX(stlBox, domain[1])) < TicksPerMicro

\* C10 amended: for every surface box whose largest extent D is at least
\* 10^-6 (one unit of the last printed decimal) the locationInMesh point lies
\* inside the domain box and outside the surface box, and its x coordinate is,
\* to the printed precision, the downstream face plus half the gap.
C10_LocationInFreeSpace ==
    Len(case.geo) = 1 /\ LargestExtent(stlBox) >= TicksPerMicro =>
       LET p == case.geo[1].loc
       IN  /\ InsideBox(p, domain[1])
           /\ ~InsideBox(p, stlBox)
           /\ Abs(ParseFloat(p.x) - HalfGapX(stlBox, domain[1])) < TicksPerMicro

C10_Witness ==
    /\ Len(case.geo) = 1
    /\ LargestExtent(stlBox) = TicksPerMicro
    /\ stlBox.xmax = 2
    /\ ppc = "ready"

\* C10 with D > 0 in place of D >= 10^-6: does not hold, a surface smaller
\* than the printed precision has its point printed onto the surface box
C10_LocationPositiveExtent ==
    Len(case.geo) = 1 /\ LargestExtent(stlBox) > 0 =>
       LET p == case.geo[1].loc
       IN  /\ InsideBox(p, domain[1])
           /\ ~InsideBox(p, stlBox)
           /\ Abs(ParseFloat(p.x) - HalfGapX(stlBox, domain[1])) < TicksPerMicro

\* what one word of a field file is to become when every whole word is
\* replaced exactly once
WholeWordRenamed(word, stl_name) ==
    IF word \in {<<"placeholder">>, <<"cylinder">>} THEN Words(stl_name)
    ELSE IF word = <<"cylinder", "Group">> THEN WithGroup(Words(stl_name))
    ELSE <<word>>

RECURSIVE RenamedAtOnce(_, _)
RenamedAtOnce(text, stl_name) ==
    IF text = <<>> THEN <<>>
    ELSE WholeWordRenamed(Head(text), stl_name)
            \o RenamedAtOnce(Tail(text), stl_name)

\* C11: for every surface name, each field file of the case is its template
\* with every whole word placeholder and cylinder replaced by the name once
\* and every whole word cylinderGroup by <name>Group once, words that only
\* contain these names untouched, and no replaced text rewritten again.
C11_FieldRenameExactlyOnce ==
    "fields" \in case.subst =>
        /\ Len(case.fields) = Len(fieldFiles)
        /\ \A i \in 1..Len(case.fields) :
              /\ case.fields[i].name = fieldFiles[i].name
              /\ case.fields[i].text =
                    RenamedAtOnce(fieldFiles[i].text, fname[1].stem)

\* C12: the numeric key rewrite is idempotent and keeps the line's frame: the
\* script run on its own output with the same values leaves every line as the
\* first run wrote it, and every line of the output has the indent and the
\* key of its template line, key lines the new value and other lines the old.
C12_RewriteIdempotent ==
    pc = "generated" =>
        /\ case.bmd = RewriteLines(blockTemplate, Values(stlBox))
        /\ Len(case.bmd) = Len(blockTemplate)
        /\ \A i \in 1..Len(case.bmd) :
              /\ case.bmd[i].indent = blockTemplate[i].indent
              /\ case.bmd[i].key = blockTemplate[i].key
              /\ case.bmd[i].tail = blockTemplate[i].tail
              /\ case.bmd[i].val =
                    IF case.bmd[i].key \in NumericKeys
                    THEN Fmt6(Values(stlBox)[case.bmd[i].key])
                    ELSE blockTemplate[i].val

C12_Witness ==
    /\ pc = "generated"
    /\ blockTemplate = TailedTemplate
    /\ stlBox = UnitCube
    /\ case.bmd[3].indent = 8
    /\ case.bmd[3].val = -3 * 10^Precision

\* a line that sets the subdomain-count key
IsKeyLine(L) == L.head = <<"numberOfSubdomains">>

\* C13: for every decomposition template and every requested count N the
\* patched file has exactly one line for the subdomain-count key, that line
\* sets the key to N, and every other line is the template's line.
C13_ExactlyOneKeyLine ==
    "decomp" \in case.subst =>
        /\ Len(case.decomp) = Len(decompTemplate)
        /\ Cardinality({i \in 1..Len(case.decomp) : IsKeyLine(case.decomp[i])}) = 1
        /\ \A i \in 1..Len(case.decomp) :
              IF IsKeyLine(case.decomp[i])
              THEN case.decomp[i].val = nSub
              ELSE case.decomp[i] = decompTemplate[i]

\* line i of a snappy template lies in a refinementBox sub-block: after a
\* refinementBox header with no closing brace in between
InRefBox(lines, i) ==
    \E j \in 1..(i - 1) :
        /\ lines[j].kind = "refinementBox"
        /\ \A k \in (j + 1)..(i - 1) : lines[k].kind # "}"

\* the structural lines the substitutions refer to
HasKey(lines, k) == \E i \in 1..Len(lines) : lines[i].key = k
HasCastellatedBlock(lines) ==
    \E i \in 1..(Len(lines) - 1) :
        lines[i].kind = "castellatedMeshControls" /\ lines[i + 1].kind = "{"
HasRefBoxEntry(lines, kind) ==
    \E i \in 1..Len(lines) : lines[i].kind = kind /\ InRefBox(lines, i)

\* C14: no output is produced from a template that lacks a structural line a
\* substitution refers to (the script fails instead): no blockMeshDict from
\* a template without one of xmin..zmax, dx..dz, no snappyHexMeshDict from a
\* template without the castellatedMeshControls header and its brace or
\* without the refinementBox sub-block and its min and max entries.
C14_MissingTokenFails ==
    /\ "blockMesh" \in case.subst =>
          \A k \in NumericKeys : HasKey(blockTemplate, k)
    /\ "snappy" \in case.subst =>
          /\ HasCastellatedBlock(snappyTemplate)
          /\ HasRefBoxEntry(snappyTemplate, "min")
          /\ HasRefBoxEntry(snappyTemplate, "max")

\* C14, the snappy half alone: it fails as well
C14_MissingSnappyTokenFails ==
    "snappy" \in case.subst =>
        /\ HasCastellatedBlock(snappyTemplate)
        /\ HasRefBoxEntry(snappyTemplate, "min")
        /\ HasRefBoxEntry(snappyTemplate, "max")

\* C14 for the cell keys, which nothing reads back: a template without dx,
\* dy, dz is rewritten and the script ends normally
C14_MissingCellKeyFails ==
    pc = "generated" => \A k \in CellKeys : HasKey(blockTemplate, k)

\* C15: case assembly is deterministic: the runs on the same input folder
\* and templates copy the same single surface file into the case, whatever
\* the order in which the folder is listed.
C15_SameSurfaceEveryRun == Cardinality(picked) <= 1

\* C15 within one run: the file the assembler selected is the one it would
\* select from any other listing of the same files
C15_SelectionIgnoresOrder ==
    fname # <<>> =>
        \A l \in SameFiles(stlListing) :
            ListdirStlFiles(l) # <<>> /\ ListdirStlFiles(l)[1] = fname[1]

NotLocLine(L) == L # LocLine

\* C16: apart from the injected line, every line of the rewritten
\* dictionary that is not a min ( or max ( entry of the refinementBox
\* sub-block is the template's line: the overwriting ends with the sub-block,
\* so a later refinementBox mention or a min (/max ( line of another block is
\* left alone.
C16_OnlyRefBoxOverwritten ==
    "snappy" \in case.subst =>
        LET out == SelectSeq(case.snappy, NotLocLine)
        IN  /\ Len(out) = Len(snappyTemplate)
            /\ \A i \in 1..Len(out) :
                  ~(snappyTemplate[i].kind \in {"min", "max"}
                      /\ InRefBox(snappyTemplate, i))
                    => out[i] = snappyTemplate[i]

LocPositions(out) == {p \in 1..Len(out) : out[p] = LocLine}
HeaderPositions(out) == {p \in 1..Len(out) : out[p].kind = "castellatedMeshControls"}

\* C17: the locationInMesh line is in the rewritten dictionary once for each
\* castellatedMeshControls header line, each time as the line after the
\* opening brace that directly follows the header, and nowhere else.
C17_InjectedAfterHeaderBrace ==
    "snappy" \in case.subst =>
        LET out == case.snappy
        IN  /\ Cardinality(LocPositions(out)) = Cardinality(HeaderPositions(out))
            /\ \A p \in LocPositions(out) :
                  /\ p >= 3
                  /\ out[p - 1].kind = "{"
                  /\ out[p - 2].kind = "castellatedMeshControls"

\* C17 without the count: every injected line follows the brace that
\* directly follows the header
C17_InjectedOnlyAfterHeaderBrace ==
    "snappy" \in case.subst =>
        \A p \in LocPositions(case.snappy) :
            /\ p >= 3
            /\ case.snappy[p - 1].kind = "{"
            /\ case.snappy[p - 2].kind = "castellatedMeshControls"

\* the refinement stage of this run has completed: every command so far
\* exited zero, snappyHexMesh among them, and in parallel mode the
\* reconstruction too
MeshSucceeded ==
    /\ \A i \in 1..Len(invoked) : invoked[i].rc = 0
    /\ RanOk("log_snappyHexMesh.txt")
    /\ runParallel => RanOk("log_decomposePar.txt") /\ RanOk("log_reconstructParMesh.txt")

\* the steps at which the controller puts a marker into a case that had none
\* (copying a template that holds one is case preparation, not this step)
MarkerCreated == ~case.foam /\ case'.foam /\ ppc # "copytree"

\* C18: the controller creates the case.foam marker only once the refinement
\* stage of the run has completed successfully, so never in a run whose
\* meshing failed; a marker that is already there stays; and a run that ends
\* successfully ends with the marker in the case.
C18_MarkerAfterMeshing ==
    [][/\ MarkerCreated => MeshSucceeded /\ pc = "foam"
       /\ pc = "foam" /\ case.foam => case'.foam
       /\ pc' = "done" /\ failure' = "" => case'.foam /\ MeshSucceeded']_vars

C18_Witness ==
    /\ pc = "done"
    /\ failure = ""
    /\ runParallel
    /\ RanOk("log_reconstructParMesh.txt")
    /\ case.foam

\* C19: whenever a parallel command has been launched with N workers, the
\* decomposeParDict of the case, which the decomposePar before it read, sets
\* N subdomains.
C19_WorkersMatchSubdomains ==
    \A i \in 1..Len(invoked) : invoked[i].np # 0 => case.nSub = invoked[i].np

\* C20: the controller and the assembler agree on the surface: within a run
\* the controller has reported that no surface was found exactly when the
\* assembler's own search of the folder finds none, and the file the
\* controller announced is the file the assembler copied into the case.
C20_DiscoveryAgrees ==
    pc \notin {"start", "clean"} =>
        /\ failure = "no_stl" <=> ListdirStlFiles(stlListing) = <<>>
        /\ "surface" \in case.subst => case.stl = inputStl

\* C20, the announced file alone: it fails as well
C20_AnnouncedIsCopied ==
    pc \notin {"start", "clean"} /\ "surface" \in case.subst => case.stl = inputStl

=============================================================================
